---- MODULE Spec2Model ----
(***************************************************************************)
(* gowon-steam: the steam command of the gowon IRC bot.                    *)
(*                                                                         *)
(* main.go  : genSteamHandler dispatches "<subcommand> [username]" to the  *)
(*            set-user handler or, through CommandHandler, to one of the   *)
(*            two steam operations; a bolt bucket maps nick -> username.   *)
(* steam.go : steamGetId, getRecentlyPlayed, getAchievements (one HTTP GET *)
(*            each), colourList, newestAchievement, steamLastGame and      *)
(*            steamLastAchievement.                                        *)
(*                                                                         *)
(* Strings are TLA+ strings and fmt.Sprintf / strings.Join are string      *)
(* concatenation.  The argument string of a message is a sequence of       *)
(* chunks: a chunk is either a whitespace character or a run of            *)
(* non-whitespace characters, so that strings.Fields has something to do.  *)
(* An HTTP exchange is split at the point where the code blocks: the step  *)
(* that consumes one response also issues the next request.                *)
(*                                                                         *)
(* Spec       : messages through genSteamHandler, bucket included.         *)
(* SpecSteam  : steamLastGame / steamLastAchievement called directly, with *)
(*              longer lists in the responses.                             *)
(* SpecColour : colourList alone.   SpecNewest : newestAchievement alone.  *)
(*                                                                         *)
(* One handler invocation runs at a time: a message is delivered only when *)
(* the previous invocation has returned.  main runs beside it: blocked on  *)
(* the signal channel, then disconnecting and closing the database.        *)
(***************************************************************************)
EXTENDS Integers, Sequences, FiniteSets, TLC

VARIABLES
    kv,              \* the "steam" bucket: nick -> username ("" = no entry)
    m,               \* the gowon.Message handed to the handler, or NoMsg
    pc,              \* where the handler invocation stands
    command,         \* parseArgs: first field
    user,            \* the username the steam operation runs against
    f,               \* the steam operation CommandHandler was given
    id,              \* steamGetId's result
    recentlyPlayed,  \* recentlyPlayedRes.Response.Games
    names,           \* the argument of colourList
    cl,              \* the result of colourList
    idx,             \* 1-based position in recentlyPlayed.Ids() of the fetch in flight
    achievementsMap, \* GameName -> playerAchievementsRes
    fetched,         \* what getAchievements returned to the loop, title by title
    game,            \* newestAchievement: first result
    newest,          \* newestAchievement: second result
    res,             \* the response to the latest GET (res and its body in steam.go)
    kvOps,           \* the bucket transactions of the current invocation and how they ended
    userC,           \* the slice getUser returned
    reply,           \* the handler's string result
    err,             \* the handler's error result
    requests,        \* the HTTP GETs issued by the current invocation, in order
    limits,          \* how long the lists are that the server behind client answers with
    kvOpen           \* the bolt database is open: main has not run its deferred kv.Close()

vars == <<kv, m, pc, command, user, f, id, recentlyPlayed, names, cl, idx,
          achievementsMap, fetched, game, newest, res, kvOps, userC, reply, err, requests,
          limits, kvOpen>>

-----------------------------------------------------------------------------
(* Bounds of the model *)

MaxFields == 3        \* fields in an argument string
MaxSpaces == 1        \* whitespace characters in a row in an argument string
MaxGames == 2         \* titles in a recently-played response, steam operation called directly
MaxAchievements == 1  \* achievements in one title's response, likewise
HandlerMaxGames == 1  \* titles in a recently-played response, operation reached through the handler
HandlerMaxAchievements == 1  \* achievements in one title's response, likewise
MaxItems == 8         \* strings handed to colourList on its own
MaxNewest == 2        \* achievements per title handed to newestAchievement on its own

-----------------------------------------------------------------------------
(* Input alphabets *)

Nicks == {"n1", "n2"}

\* the runes unicode.IsSpace accepts, which is what strings.Fields splits at.
\* In ASCII: space, tab, line feed, vertical tab (U+000B), form feed, carriage return
AsciiSpace == {" ", "\t", "\n", "", "\f", "\r"}

\* in the rest of Latin-1: next line (U+0085) and no-break space (U+00A0)
Latin1Space == {"", " "}

\* beyond Latin-1, the White_Space table: U+1680 (ogham space mark), U+2000 to U+200A,
\* U+2028, U+2029, U+202F, U+205F and U+3000.  A string of this language cannot
\* hold a rune from U+2000 on; such a rune is written <U+hhhh> and stands for the
\* one rune of that code point
TableSpace ==
    {" ", "<U+2000>", "<U+2001>", "<U+2002>", "<U+2003>", "<U+2004>", "<U+2005>",
     "<U+2006>", "<U+2007>", "<U+2008>", "<U+2009>", "<U+200A>", "<U+2028>",
     "<U+2029>", "<U+202F>", "<U+205F>", "<U+3000>"}

Whitespace == AsciiSpace \cup Latin1Space \cup TableSpace

CommandWords == {"s", "set", "r", "recent", "a", "achievement", "achievements", "h"}

Users == {"bob", "amy"}

SeqsUpTo(S, n) == UNION {[1..k -> S] : k \in 0..n}

\* <subcommand> [username ...], or nothing
FieldLists ==
    {<<>>} \cup {<<c>> \o us : c \in CommandWords, us \in SeqsUpTo(Users, MaxFields - 1)}

\* a run of n whitespace runes w
Spaces(n, w) == [i \in 1..n |-> w]

\* the fields with lead whitespace before, gap between and trail after them
RECURSIVE Spread(_, _, _)
Spread(fl, gap, w) ==
    IF Len(fl) = 0 THEN <<>>
    ELSE IF Len(fl) = 1 THEN fl
    ELSE <<Head(fl)>> \o Spaces(gap, w) \o Spread(Tail(fl), gap, w)

ArgStrings ==
    {Spaces(lead, w) \o Spread(fl, gap, w) \o Spaces(trail, w) :
        fl \in FieldLists, lead \in 0..MaxSpaces, gap \in 1..MaxSpaces,
        trail \in 0..MaxSpaces, w \in Whitespace}

Messages == [Nick : Nicks, Args : ArgStrings]

NoMsg == [Nick |-> "", Args |-> <<"-">>]

ApiKey == "key"

-----------------------------------------------------------------------------
(* Errors: nil, the two sentinels of steam.go, and the classes of foreign errors *)

ErrNil == "nil"
profileNotFoundErr == "id not found"
profileNotPublicErr == "profile is not public"
ErrTransport == "transport"   \* client.Get / ioutil.ReadAll failed
ErrDecode == "decode"         \* json.Unmarshal failed
ErrKV == "kv"                 \* the bolt transaction failed
ErrPanic == "panic"           \* nil pointer dereference: json null left j == nil

-----------------------------------------------------------------------------
(* HTTP responses.  kind: "neterr" the GET or the body read failed;         *)
(* "badjson" the body is not JSON of the expected shape (empty included);   *)
(* "null" the body is the JSON literal null; "json" the body decoded into   *)
(* the struct, absent fields left at their zero value.                      *)

FailureKinds == {"neterr", "badjson", "null"}

SteamIds == {"999", "777"}

SuccessValues == {0, 1, 42}

ResolveURL == "ResolveVanityURL"
RecentURL == "GetRecentlyPlayedGames"
AchievementsURL == "GetPlayerAchievements"

NoResponse == [url |-> "", kind |-> ""]

ResolveResponses ==
    [url : {ResolveURL}, kind : FailureKinds, SteamId : {""}, Success : {0}]
        \cup [url : {ResolveURL}, kind : {"json"}, SteamId : SteamIds,
              Success : SuccessValues]

GamePool == {[AppId |-> 1, Name |-> "A"], [AppId |-> 2, Name |-> "B"]}

RecentResponses(maxGames) ==
    [url : {RecentURL}, kind : FailureKinds, Games : {<<>>}]
        \cup [url : {RecentURL}, kind : {"json"}, Games : SeqsUpTo(GamePool, maxGames)]

AchievementPool ==
    { [UnlockTime |-> 0, Name |-> "x", Description |-> "dx"],
      [UnlockTime |-> 1, Name |-> "y", Description |-> ""],
      [UnlockTime |-> 2, Name |-> "z", Description |-> "dz"] }

GameNames == {"A", "B"}

NotPublicText == "Profile is not public"

ErrorTexts == {"", NotPublicText, "profile is not public"}

AchievementResponses(maxAchievements) ==
    [url : {AchievementsURL}, kind : FailureKinds, GameName : {""},
     Achievements : {<<>>}, Error : {""}]
        \cup [url : {AchievementsURL}, kind : {"json"}, GameName : GameNames,
              Achievements : SeqsUpTo(AchievementPool, maxAchievements), Error : {""}]
        \cup [url : {AchievementsURL}, kind : {"json"}, GameName : {""},
              Achievements : {<<>>}, Error : ErrorTexts \ {""}]

-----------------------------------------------------------------------------
(* steam.go: the three fetches, as functions of the response received *)

\* mutant: the error of json.Unmarshal is dropped
decodeErrUnchecked(rs) ==
    CASE rs.kind = "neterr" -> ErrTransport
      [] rs.kind = "null" -> ErrPanic
      [] OTHER -> ErrNil

\* the error of a fetch up to and including json.Unmarshal
decodeErr(rs) ==
    CASE rs.kind = "neterr" -> ErrTransport
      [] rs.kind = "badjson" -> ErrDecode
      [] rs.kind = "null" -> ErrPanic
      [] OTHER -> ErrNil

\* mutant: only a success flag of 0 counts as "not found"
steamGetIdZeroOnly(rs) ==
    IF decodeErr(rs) /= ErrNil THEN [id |-> "", err |-> decodeErr(rs)]
    ELSE IF rs.Success = 0 THEN [id |-> "", err |-> profileNotFoundErr]
    ELSE [id |-> rs.SteamId, err |-> ErrNil]

\* mutant: the success flag is not looked at
steamGetIdUngated(rs) ==
    IF decodeErr(rs) /= ErrNil THEN [id |-> "", err |-> decodeErr(rs)]
    ELSE [id |-> rs.SteamId, err |-> ErrNil]

steamGetId(rs) ==
    IF decodeErr(rs) /= ErrNil THEN [id |-> "", err |-> decodeErr(rs)]
    ELSE IF rs.Success /= 1 THEN [id |-> "", err |-> profileNotFoundErr]
    ELSE [id |-> rs.SteamId, err |-> ErrNil]

\* getRecentlyPlayed never reads through j: a body of JSON null comes back as a nil
\* pointer with a nil error (isNil), for the caller to dereference
getRecentlyPlayed(rs) ==
    CASE rs.kind = "neterr" -> [Games |-> <<>>, isNil |-> FALSE, err |-> ErrTransport]
      [] rs.kind = "badjson" -> [Games |-> <<>>, isNil |-> FALSE, err |-> ErrDecode]
      [] rs.kind = "null" -> [Games |-> <<>>, isNil |-> TRUE, err |-> ErrNil]
      [] OTHER -> [Games |-> rs.Games, isNil |-> FALSE, err |-> ErrNil]

\* mutant: the names come out most recent last
NamesReversed(games) == [i \in 1..Len(games) |-> games[Len(games) + 1 - i].Name]

Names(games) == [i \in 1..Len(games) |-> games[i].Name]

\* mutant: the app ids come out last title first
IdsReversed(games) == [i \in 1..Len(games) |-> games[Len(games) + 1 - i].AppId]

Ids(games) == [i \in 1..Len(games) |-> games[i].AppId]

EmptyAchievementsRes == [GameName |-> "", Achievements |-> <<>>, Error |-> ""]

\* mutant: the error text of the decoded response is not looked at
getAchievementsNoSentinel(rs) ==
    IF decodeErr(rs) /= ErrNil
    THEN [as |-> EmptyAchievementsRes, err |-> decodeErr(rs)]
    ELSE [as |-> [GameName |-> rs.GameName, Achievements |-> rs.Achievements,
                  Error |-> rs.Error],
          err |-> ErrNil]

\* mutant: a failed GET or body read is not reported, the empty result is returned
getAchievementsErrDropped(rs) ==
    IF rs.kind = "neterr"
    THEN [as |-> EmptyAchievementsRes, err |-> ErrNil]
    ELSE IF decodeErr(rs) /= ErrNil
    THEN [as |-> EmptyAchievementsRes, err |-> decodeErr(rs)]
    ELSE LET j == [GameName |-> rs.GameName, Achievements |-> rs.Achievements,
                   Error |-> rs.Error]
         IN IF j.Error = NotPublicText
            THEN [as |-> j, err |-> profileNotPublicErr]
            ELSE [as |-> j, err |-> ErrNil]

getAchievements(rs) ==
    IF decodeErr(rs) /= ErrNil
    THEN [as |-> EmptyAchievementsRes, err |-> decodeErr(rs)]
    ELSE LET j == [GameName |-> rs.GameName, Achievements |-> rs.Achievements,
                   Error |-> rs.Error]
         IN IF j.Error = NotPublicText
            THEN [as |-> j, err |-> profileNotPublicErr]
            ELSE [as |-> j, err |-> ErrNil]

-----------------------------------------------------------------------------
(* steam.go: colourList *)

colours == <<"green", "red", "blue", "orange", "magenta", "cyan", "yellow">>

\* mutant: past the palette the last colour is kept instead of wrapping round
RECURSIVE colourLoopNoWrap(_, _, _)
colourLoopNoWrap(in, n, out) ==
    IF n > Len(in) THEN out
    ELSE LET c == colours[IF n > Len(colours) THEN Len(colours) ELSE n]
             o == "{" \o c \o "}" \o in[n] \o "{clear}"
         IN colourLoopNoWrap(in, n + 1, Append(out, o))

\* the loop of colourList from its n-th iteration (n is Go's index + 1)
RECURSIVE colourLoop(_, _, _)
colourLoop(in, n, out) ==
    IF n > Len(in) THEN out
    ELSE LET c == colours[((n - 1) % Len(colours)) + 1]
             o == "{" \o c \o "}" \o in[n] \o "{clear}"
         IN colourLoop(in, n + 1, Append(out, o))

colourList(in) == colourLoop(in, 1, <<>>)

RECURSIVE Join(_, _)
Join(elems, sep) ==
    IF Len(elems) = 0 THEN ""
    ELSE IF Len(elems) = 1 THEN elems[1]
    ELSE elems[1] \o sep \o Join(Tail(elems), sep)

-----------------------------------------------------------------------------
(* steam.go: newestAchievement.  Go ranges over the map in an order of its  *)
(* own choosing: order is that order, a permutation of the map's keys.      *)

NoAchievement == [UnlockTime |-> 0, Name |-> "", Description |-> ""]

Orders(am) ==
    {o \in [1..Cardinality(DOMAIN am) -> DOMAIN am] :
        \A k \in DOMAIN am : \E i \in DOMAIN o : o[i] = k}

\* mutant: an achievement as new as the current one replaces it
isNewerOrEqual(a, cur) == a.UnlockTime >= cur.UnlockTime

\* the comparison that lets a replace the current newest
isNewer(a, cur) == a.UnlockTime > cur.UnlockTime

\* mutant: within a title an achievement as new as the current one replaces it
RECURSIVE scanAchievementsLastWins(_, _, _)
scanAchievementsLastWins(as, i, acc) ==
    IF i > Len(as.Achievements) THEN acc
    ELSE LET a == as.Achievements[i]
         IN IF a.UnlockTime > 0 /\ a.UnlockTime >= acc.newest.UnlockTime
            THEN scanAchievementsLastWins(as, i + 1, [game |-> as, newest |-> a])
            ELSE scanAchievementsLastWins(as, i + 1, acc)

\* the inner loop over one title's achievements, from position i
RECURSIVE scanAchievements(_, _, _)
scanAchievements(as, i, acc) ==
    IF i > Len(as.Achievements) THEN acc
    ELSE LET a == as.Achievements[i]
         IN IF isNewer(a, acc.newest)
            THEN scanAchievements(as, i + 1, [game |-> as, newest |-> a])
            ELSE scanAchievements(as, i + 1, acc)

\* mutant: the running newest starts afresh with every title
RECURSIVE scanTitlesPerTitle(_, _, _, _)
scanTitlesPerTitle(am, order, k, acc) ==
    IF k > Len(order) THEN acc
    ELSE LET t == scanAchievements(am[order[k]], 1,
                      [game |-> acc.game, newest |-> [UnlockTime |-> 0, Name |-> "",
                                                      Description |-> ""]])
         IN scanTitlesPerTitle(am, order, k + 1,
                               IF t.newest.UnlockTime > 0 THEN t ELSE acc)

\* the outer loop over the map, from position k of the iteration order
RECURSIVE scanTitles(_, _, _, _)
scanTitles(am, order, k, acc) ==
    IF k > Len(order) THEN acc
    ELSE scanTitles(am, order, k + 1, scanAchievements(am[order[k]], 1, acc))

newestAchievement(am, order) ==
    scanTitles(am, order, 1, [game |-> EmptyAchievementsRes, newest |-> NoAchievement])

-----------------------------------------------------------------------------
(* steam.go: the replies of steamLastGame and steamLastAchievement *)

NoIdReply(u) == "Error: no id found for " \o u

NoGamesReply(u) == u \o " has no recently played steam games"

GamesReply(u, tagged) == u \o "'s recently played steam games: " \o Join(tagged, ", ")

NotPublicReply == "Error: profile is not public"

NoAchievementsReply(u) == u \o " has no recently unlocked steam achievements"

\* mutant: achievement first, title last
AchievementReplyTitleLast(u, g, a) ==
    u \o "'s last steam achievement: " \o a.Name \o " (" \o a.Description \o ") - "
      \o g.GameName

AchievementReply(u, g, a) ==
    u \o "'s last steam achievement: " \o g.GameName \o " - " \o a.Name
      \o " (" \o a.Description \o ")"

-----------------------------------------------------------------------------
(* main.go: parseArgs, the bucket, the replies of the handler *)

\* mutant: only the blank separates fields
IsSpaceBlankOnly(c) == c = " "

\* unicode.IsSpace, the test strings.Fields splits by
IsSpace(c) == c \in Whitespace

\* strings.Fields: the maximal runs of non-whitespace, in order
RECURSIVE fieldsLoop(_, _, _)
fieldsLoop(msg, cur, acc) ==
    IF msg = <<>> THEN (IF cur = "" THEN acc ELSE Append(acc, cur))
    ELSE IF IsSpace(Head(msg))
         THEN fieldsLoop(Tail(msg), "", IF cur = "" THEN acc ELSE Append(acc, cur))
         ELSE fieldsLoop(Tail(msg), cur \o Head(msg), acc)

Fields(msg) == fieldsLoop(msg, "", <<>>)

parseArgs(msg) ==
    LET fields == Fields(msg)
    IN [command |-> IF Len(fields) >= 1 THEN fields[1] ELSE "",
        user |-> IF Len(fields) >= 2 THEN fields[2] ELSE ""]

\* mutant: the error of the transaction is dropped
setUserErrDropped(bucket, nick, u, ok) ==
    IF ok THEN [kv |-> [bucket EXCEPT ![nick] = u], err |-> ErrNil]
    ELSE [kv |-> bucket, err |-> ErrNil]

\* mutant: an entry already there is kept
setUserKeepFirst(bucket, nick, u, ok) ==
    IF ok
    THEN [kv |-> IF bucket[nick] = "" THEN [bucket EXCEPT ![nick] = u] ELSE bucket,
          err |-> ErrNil]
    ELSE [kv |-> bucket, err |-> ErrKV]

\* b.Put inside kv.Update: the new bucket and the transaction's error
setUser(bucket, nick, u, ok) ==
    IF ok THEN [kv |-> [bucket EXCEPT ![nick] = u], err |-> ErrNil]
    ELSE [kv |-> bucket, err |-> ErrKV]

\* b.Get inside kv.View
getUser(bucket, nick, ok) ==
    IF ok THEN [user |-> bucket[nick], err |-> ErrNil]
    ELSE [user |-> "", err |-> ErrKV]

UsernameNeededReply == "Error: username needed"

SetReply(nick, u) == "set " \o nick \o "'s user to " \o u

HelpReply == "one of [s]et, [r]ecent or [a]chievements must be passed as a command"

SetCommands == {"s", "set"}
RecentCommands == {"r", "recent"}
AchievementCommands == {"a", "achievement"}

-----------------------------------------------------------------------------
(* The requests of steam.go, by URL template *)

ResolveRequest(u) == [url |-> ResolveURL, key |-> ApiKey, target |-> u, appid |-> 0]

RecentRequest(i) == [url |-> RecentURL, key |-> ApiKey, target |-> i, appid |-> 0]

AchievementsRequest(i, a) ==
    [url |-> AchievementsURL, key |-> ApiKey, target |-> i, appid |-> a]

-----------------------------------------------------------------------------
(* State *)

\* the nil slice: user before the lookup, and what b.Get gives for a key with no entry
NoSlice == ""

EmptyMap == [g \in {} |-> EmptyAchievementsRes]

mapPut(am, k, v) == [g \in (DOMAIN am) \cup {k} |-> IF g = k THEN v ELSE am[g]]

locals == <<command, user, f, id, recentlyPlayed, names, cl, idx,
            achievementsMap, fetched, game, newest, res, kvOps, userC, reply, err, requests>>

LocalsInit ==
    /\ command = ""
    /\ user = ""
    /\ f = "none"
    /\ id = ""
    /\ recentlyPlayed = <<>>
    /\ names = <<>>
    /\ cl = <<>>
    /\ idx = 0
    /\ achievementsMap = EmptyMap
    /\ fetched = <<>>
    /\ game = EmptyAchievementsRes
    /\ newest = NoAchievement
    /\ res = NoResponse
    /\ kvOps = <<>>
    /\ userC = NoSlice
    /\ reply = ""
    /\ err = ErrNil
    /\ requests = <<>>

Init ==
    /\ kv = [n \in Nicks |-> ""]
    /\ m = NoMsg
    /\ pc = "idle"
    /\ LocalsInit
    /\ limits = [games |-> HandlerMaxGames, achievements |-> HandlerMaxAchievements]
    /\ kvOpen = TRUE

\* a fresh invocation: every local at its zero value
LocalsReset ==
    /\ command' = ""
    /\ user' = ""
    /\ f' = "none"
    /\ id' = ""
    /\ recentlyPlayed' = <<>>
    /\ names' = <<>>
    /\ cl' = <<>>
    /\ idx' = 0
    /\ achievementsMap' = EmptyMap
    /\ fetched' = <<>>
    /\ game' = EmptyAchievementsRes
    /\ newest' = NoAchievement
    /\ res' = NoResponse
    /\ kvOps' = <<>>
    /\ userC' = NoSlice
    /\ reply' = ""
    /\ err' = ErrNil
    /\ requests' = <<>>

\* return reply, err from the handler
Return(r, e) ==
    /\ reply' = r
    /\ err' = e
    /\ pc' = IF e = ErrPanic THEN "panicked" ELSE "done"

-----------------------------------------------------------------------------
(* The router hands a message to the handler registered for "steam" *)

Deliver ==
    /\ pc = "idle"
    /\ kvOpen
    /\ \E msg \in Messages : m' = msg
    /\ pc' = "handling"
    /\ UNCHANGED <<kv, locals, limits, kvOpen>>

\* The handler has returned: the router publishes the reply (or logs the error)
\* and the invocation's frame is gone
Complete ==
    /\ pc = "done"
    /\ pc' = "idle"
    /\ LocalsReset
    /\ UNCHANGED <<kv, m, limits, kvOpen>>

-----------------------------------------------------------------------------
(* main.go: the handler, up to its return or to the first GET it blocks on *)

\* steamLastGame / steamLastAchievement up to the GET of steamGetId
CallSteam(fn, u) ==
    /\ f' = fn
    /\ user' = u
    /\ requests' = Append(requests, ResolveRequest(u))
    /\ pc' = "resolving"
    /\ UNCHANGED <<id, recentlyPlayed, names, cl, idx, achievementsMap, fetched, game, newest,
                   res, reply, err>>

\* how a bolt transaction can end: on a database that has been closed it fails
Outcomes(isOpen) == IF isOpen THEN BOOLEAN ELSE {FALSE}

\* CommandHandler up to the return of getUser: with a username the steam operation is
\* called at once; without one the View transaction runs and ends, and userC holds the
\* slice it handed out
CommandHandler(nick, u, fn) ==
    IF u /= ""
    THEN /\ CallSteam(fn, u)
         /\ UNCHANGED <<kvOps, userC>>
    ELSE \E ok \in Outcomes(kvOpen) :
            LET r == getUser(kv, nick, ok)
            IN /\ kvOps' = Append(kvOps, [op |-> "get", nick |-> nick, ok |-> ok])
               /\ IF r.err /= ErrNil
                  THEN /\ Return("", r.err)
                       /\ UNCHANGED <<user, f, id, recentlyPlayed, names, cl, idx,
                                      achievementsMap, fetched, game, newest, res,
                                      requests, userC>>
                  ELSE /\ userC' = r.user
                       /\ pc' = "lookedUp"
                       /\ UNCHANGED <<user, f, id, recentlyPlayed, names, cl, idx,
                                      achievementsMap, fetched, game, newest, res,
                                      requests, reply, err>>

\* the steam operation genSteamHandler passed for the command
OperationOf(c) == IF c \in RecentCommands THEN "steamLastGame" ELSE "steamLastAchievement"

\* CommandHandler after getUser: len(userC) == 0 and f(apiKey, string(userC)).  userC
\* is the slice b.Get handed out, not a copy, and the transaction it was valid in has
\* ended: len reads the slice header only, string(userC) reads the bytes in bolt's
\* mapping of the file, which is there as long as the database is open and gone once
\* kv.Close() has run; the read then faults
UseLookup ==
    /\ pc = "lookedUp"
    /\ IF Len(userC) = 0
       THEN /\ Return(UsernameNeededReply, ErrNil)
            /\ UNCHANGED <<user, f, id, recentlyPlayed, names, cl, idx, achievementsMap,
                           fetched, game, newest, res, requests>>
       ELSE IF ~kvOpen
       THEN /\ Return("", ErrPanic)
            /\ UNCHANGED <<user, f, id, recentlyPlayed, names, cl, idx, achievementsMap,
                           fetched, game, newest, res, requests>>
       ELSE CallSteam(OperationOf(command), userC)
    /\ UNCHANGED <<kv, m, command, kvOps, userC, limits, kvOpen>>

\* main: a signal has come in, the client is disconnected and the deferred kv.Close()
\* runs, whatever the handler's goroutine is doing
Close ==
    /\ kvOpen
    /\ kvOpen' = FALSE
    /\ UNCHANGED <<kv, m, pc, locals, limits>>

\* mutant: the username is not checked for being empty
HandleSetNoEmptyCheck ==
    /\ pc = "handling"
    /\ LET p == parseArgs(m.Args)
       IN /\ p.command \in SetCommands
          /\ command' = p.command
          /\ user' = p.user
          /\ \E ok \in Outcomes(kvOpen) :
                LET r == setUser(kv, m.Nick, p.user, ok)
                IN /\ kv' = r.kv
                   /\ kvOps' = Append(kvOps,
                                      [op |-> "put", nick |-> m.Nick, ok |-> ok])
                   /\ IF r.err /= ErrNil
                      THEN Return("", r.err)
                      ELSE Return(SetReply(m.Nick, p.user), ErrNil)
    /\ m' = NoMsg
    /\ UNCHANGED <<f, id, recentlyPlayed, names, cl, idx, achievementsMap, fetched, game,
                   newest, res, requests, userC, limits, kvOpen>>

HandleSet ==
    /\ pc = "handling"
    /\ LET p == parseArgs(m.Args)
       IN /\ p.command \in SetCommands
          /\ command' = p.command
          /\ user' = p.user
          /\ IF p.user = ""
             THEN /\ Return(UsernameNeededReply, ErrNil)
                  /\ UNCHANGED <<kv, kvOps>>
             ELSE \E ok \in Outcomes(kvOpen) :
                     LET r == setUser(kv, m.Nick, p.user, ok)
                     IN /\ kv' = r.kv
                        /\ kvOps' = Append(kvOps,
                                          [op |-> "put", nick |-> m.Nick, ok |-> ok])
                        /\ IF r.err /= ErrNil
                           THEN Return("", r.err)
                           ELSE Return(SetReply(m.Nick, p.user), ErrNil)
    /\ m' = NoMsg
    /\ UNCHANGED <<f, id, recentlyPlayed, names, cl, idx, achievementsMap, fetched, game,
                   newest, res, requests, userC, limits, kvOpen>>

HandleRecent ==
    /\ pc = "handling"
    /\ LET p == parseArgs(m.Args)
       IN /\ p.command \in RecentCommands
          /\ command' = p.command
          /\ CommandHandler(m.Nick, p.user, "steamLastGame")
    /\ m' = NoMsg
    /\ UNCHANGED <<kv, limits, kvOpen>>

HandleAchievement ==
    /\ pc = "handling"
    /\ LET p == parseArgs(m.Args)
       IN /\ p.command \in AchievementCommands
          /\ command' = p.command
          /\ CommandHandler(m.Nick, p.user, "steamLastAchievement")
    /\ m' = NoMsg
    /\ UNCHANGED <<kv, limits, kvOpen>>

HandleOther ==
    /\ pc = "handling"
    /\ LET p == parseArgs(m.Args)
       IN /\ p.command \notin SetCommands \cup RecentCommands \cup AchievementCommands
          /\ command' = p.command
          /\ user' = p.user
          /\ Return(HelpReply, ErrNil)
    /\ m' = NoMsg
    /\ UNCHANGED <<kv, f, id, recentlyPlayed, names, cl, idx, achievementsMap, fetched, game,
                   newest, res, kvOps, userC, requests, limits, kvOpen>>
-----------------------------------------------------------------------------
(* steam.go: the steam operations, one step per response consumed *)

\* steamLastAchievement from the call of newestAchievement to its return
Aggregate(am) ==
    \E order \in Orders(am) :
        LET n == newestAchievement(am, order)
        IN /\ game' = n.game
           /\ newest' = n.newest
           /\ IF n.newest.UnlockTime = 0
              THEN Return(NoAchievementsReply(user), ErrNil)
              ELSE Return(AchievementReply(user, n.game, n.newest), ErrNil)

\* steamGetId returns into steamLastGame or steamLastAchievement
ResolveResponse ==
    /\ pc = "resolving"
    /\ \E rs \in ResolveResponses :
          LET r == steamGetId(rs)
          IN /\ res' = rs
             /\ IF r.err = profileNotFoundErr
                THEN /\ Return(NoIdReply(user), ErrNil)
                     /\ UNCHANGED <<id, requests>>
                ELSE IF r.err /= ErrNil
                THEN /\ Return("", r.err)
                     /\ UNCHANGED <<id, requests>>
                ELSE /\ id' = r.id
                     /\ requests' = Append(requests, RecentRequest(r.id))
                     /\ pc' = "fetchingRecent"
                     /\ UNCHANGED <<reply, err>>
    /\ UNCHANGED <<kv, m, command, user, f, recentlyPlayed, names, cl, idx,
                   achievementsMap, fetched, game, newest, kvOps, userC, limits, kvOpen>>

\* mutant: the empty list is not told apart
lastGameResultNoEmptyCheck(u, games) ==
    [reply |-> GamesReply(u, colourList(Names(games))),
     names |-> Names(games), cl |-> colourList(Names(games))]

\* steamLastGame after a successful getRecentlyPlayed: its reply and the list it
\* colour-tagged on the way
lastGameResult(u, games) ==
    IF Len(games) = 0
    THEN [reply |-> NoGamesReply(u), names |-> <<>>, cl |-> <<>>]
    ELSE [reply |-> GamesReply(u, colourList(Names(games))),
          names |-> Names(games), cl |-> colourList(Names(games))]

\* getRecentlyPlayed returns into steamLastGame
LastGameRecentResponse ==
    /\ pc = "fetchingRecent"
    /\ f = "steamLastGame"
    /\ \E rs \in RecentResponses(limits.games) :
          LET r == getRecentlyPlayed(rs)
          IN /\ res' = rs
             /\ IF r.err /= ErrNil
                THEN /\ Return("", r.err)
                     /\ UNCHANGED <<recentlyPlayed, names, cl>>
                ELSE IF r.isNil
                THEN \* recentlyPlayed.Response.Games on a nil pointer
                     /\ Return("", ErrPanic)
                     /\ UNCHANGED <<recentlyPlayed, names, cl>>
                ELSE LET g == lastGameResult(user, r.Games)
                     IN /\ recentlyPlayed' = r.Games
                        /\ names' = g.names
                        /\ cl' = g.cl
                        /\ Return(g.reply, ErrNil)
    /\ UNCHANGED <<kv, m, command, user, f, id, idx, achievementsMap, fetched, game, newest,
                   kvOps, userC, requests, limits, kvOpen>>

\* getRecentlyPlayed returns into steamLastAchievement
LastAchievementRecentResponse ==
    /\ pc = "fetchingRecent"
    /\ f = "steamLastAchievement"
    /\ \E rs \in RecentResponses(limits.games) :
          LET r == getRecentlyPlayed(rs)
          IN /\ res' = rs
             /\ IF r.err /= ErrNil
                THEN /\ Return("", r.err)
                     /\ UNCHANGED <<recentlyPlayed, idx, requests, game, newest>>
                ELSE IF r.isNil
                THEN \* recentlyPlayed.Ids() on a nil pointer
                     /\ Return("", ErrPanic)
                     /\ UNCHANGED <<recentlyPlayed, idx, requests, game, newest>>
                ELSE /\ recentlyPlayed' = r.Games
                     /\ IF Len(Ids(r.Games)) = 0
                        THEN /\ Aggregate(achievementsMap)
                             /\ UNCHANGED <<idx, requests>>
                        ELSE /\ idx' = 1
                             /\ requests' =
                                   Append(requests,
                                          AchievementsRequest(id, Ids(r.Games)[1]))
                             /\ pc' = "fetchingAchievements"
                             /\ UNCHANGED <<reply, err, game, newest>>
    /\ UNCHANGED <<kv, m, command, user, f, id, names, cl, achievementsMap, fetched, kvOps, userC,
                   limits, kvOpen>>

\* getAchievements returns into the loop of steamLastAchievement
AchievementsResponse ==
    /\ pc = "fetchingAchievements"
    /\ \E rs \in AchievementResponses(limits.achievements) :
          LET r == getAchievements(rs)
          IN /\ res' = rs
             /\ IF r.err = profileNotPublicErr
                THEN /\ Return(NotPublicReply, ErrNil)
                     /\ UNCHANGED <<idx, achievementsMap, fetched, game, newest, requests>>
                ELSE IF r.err /= ErrNil
                THEN /\ Return("", r.err)
                     /\ UNCHANGED <<idx, achievementsMap, fetched, game, newest, requests>>
                ELSE LET am == mapPut(achievementsMap, r.as.GameName, r.as)
                     IN /\ achievementsMap' = am
                        /\ fetched' = Append(fetched, r.as)
                        /\ IF idx < Len(Ids(recentlyPlayed))
                           THEN /\ idx' = idx + 1
                                /\ requests' =
                                      Append(requests,
                                             AchievementsRequest(
                                                 id, Ids(recentlyPlayed)[idx + 1]))
                                /\ UNCHANGED <<pc, reply, err, game, newest>>
                           ELSE /\ Aggregate(am)
                                /\ UNCHANGED <<idx, requests>>
    /\ UNCHANGED <<kv, m, command, user, f, id, recentlyPlayed, names, cl, kvOps, userC,
                   limits, kvOpen>>

Next ==
    \/ Deliver
    \/ Complete
    \/ HandleSet
    \/ HandleRecent
    \/ HandleAchievement
    \/ HandleOther
    \/ UseLookup
    \/ Close
    \/ ResolveResponse
    \/ LastGameRecentResponse
    \/ LastAchievementRecentResponse
    \/ AchievementsResponse

Spec == Init /\ [][Next]_vars

-----------------------------------------------------------------------------
(* The steam operations called directly, as steam_test.go calls them *)

InitSteam ==
    /\ kv = [n \in Nicks |-> ""]
    /\ m = NoMsg
    /\ pc = "idle"
    /\ LocalsInit
    /\ limits = [games |-> MaxGames, achievements |-> MaxAchievements]
    /\ kvOpen = TRUE

CallLastGame ==
    /\ pc = "idle"
    /\ \E u \in Users : CallSteam("steamLastGame", u)
    /\ UNCHANGED <<kv, m, command, kvOps, userC, limits, kvOpen>>

CallLastAchievement ==
    /\ pc = "idle"
    /\ \E u \in Users : CallSteam("steamLastAchievement", u)
    /\ UNCHANGED <<kv, m, command, kvOps, userC, limits, kvOpen>>

NextSteam ==
    \/ CallLastGame
    \/ CallLastAchievement
    \/ ResolveResponse
    \/ LastGameRecentResponse
    \/ LastAchievementRecentResponse
    \/ AchievementsResponse
    \/ Complete

SpecSteam == InitSteam /\ [][NextSteam]_vars

-----------------------------------------------------------------------------
(* colourList on its own: any list of up to MaxItems strings *)

ItemPool == {"a", "b"}

InitColour ==
    /\ kv = [n \in Nicks |-> ""]
    /\ m = NoMsg
    /\ pc = "colourList"
    /\ names \in SeqsUpTo(ItemPool, MaxItems)
    /\ command = "" /\ user = "" /\ f = "none" /\ id = ""
    /\ recentlyPlayed = <<>> /\ cl = <<>> /\ idx = 0
    /\ achievementsMap = EmptyMap /\ fetched = <<>> /\ game = EmptyAchievementsRes
    /\ newest = NoAchievement /\ res = NoResponse /\ kvOps = <<>>
    /\ userC = NoSlice
    /\ reply = "" /\ err = ErrNil /\ requests = <<>>
    /\ limits = [games |-> 0, achievements |-> 0]
    /\ kvOpen = TRUE

CallColourList ==
    /\ pc = "colourList"
    /\ cl' = colourList(names)
    /\ pc' = "returned"
    /\ UNCHANGED <<kv, m, command, user, f, id, recentlyPlayed, names, idx,
                   achievementsMap, fetched, game, newest, res, kvOps, userC, reply, err, requests,
                   limits, kvOpen>>

NextColour == CallColourList

SpecColour == InitColour /\ [][NextColour]_vars

-----------------------------------------------------------------------------
(* newestAchievement on its own: any map of up to two titles, keyed by game  *)
(* name as steamLastAchievement builds it, each with up to MaxNewest         *)
(* achievements; two of the pool share an unlock time                        *)

NewestPool ==
    { [UnlockTime |-> 0, Name |-> "x", Description |-> "dx"],
      [UnlockTime |-> 1, Name |-> "y", Description |-> ""],
      [UnlockTime |-> 2, Name |-> "z", Description |-> "dz"],
      [UnlockTime |-> 2, Name |-> "w", Description |-> "dw"] }

NewestMaps ==
    UNION { [T -> SeqsUpTo(NewestPool, MaxNewest)] : T \in SUBSET GameNames }

InitNewest ==
    /\ kv = [n \in Nicks |-> ""]
    /\ m = NoMsg
    /\ pc = "newestAchievement"
    /\ \E lists \in NewestMaps :
          achievementsMap =
              [g \in DOMAIN lists |->
                  [GameName |-> g, Achievements |-> lists[g], Error |-> ""]]
    /\ command = "" /\ user = "" /\ f = "none" /\ id = ""
    /\ recentlyPlayed = <<>> /\ names = <<>> /\ cl = <<>> /\ idx = 0
    /\ fetched = <<>> /\ game = EmptyAchievementsRes
    /\ newest = NoAchievement /\ res = NoResponse /\ kvOps = <<>>
    /\ userC = NoSlice
    /\ reply = "" /\ err = ErrNil /\ requests = <<>>
    /\ limits = [games |-> 0, achievements |-> 0]
    /\ kvOpen = TRUE

CallNewestAchievement ==
    /\ pc = "newestAchievement"
    /\ \E order \in Orders(achievementsMap) :
          LET n == newestAchievement(achievementsMap, order)
          IN /\ game' = n.game
             /\ newest' = n.newest
    /\ pc' = "returned"
    /\ UNCHANGED <<kv, m, command, user, f, id, recentlyPlayed, names, cl, idx,
                   achievementsMap, fetched, res, kvOps, userC, reply, err, requests, limits, kvOpen>>

NextNewest == CallNewestAchievement

SpecNewest == InitNewest /\ [][NextNewest]_vars

-----------------------------------------------------------------------------
(* Properties *)

\* the achievement fetches issued so far are those of the first n titles, in order
AchievementFetches(n) ==
    /\ Len(requests) = 2 + n
    /\ \A j \in 1..n :
          requests[2 + j] =
              [url |-> AchievementsURL, key |-> ApiKey, target |-> id,
               appid |-> recentlyPlayed[j].AppId]

\* steamLastAchievement returned after every fetch it makes had succeeded
AllFetched ==
    /\ pc = "done"
    /\ f = "steamLastAchievement"
    /\ res.kind = "json"
    /\ \/ res.url = RecentURL /\ res.Games = <<>>
       \/ /\ res.url = AchievementsURL
          /\ res.Error /= "Profile is not public"
          /\ idx = Len(recentlyPlayed)

SomeUnlocked(am) ==
    \E g \in DOMAIN am :
        \E i \in 1..Len(am[g].Achievements) : am[g].Achievements[i].UnlockTime > 0

\* the achievement named in the reply is one of the title named in it
NewestIsOfGame ==
    /\ \E g \in DOMAIN achievementsMap : achievementsMap[g] = game
    /\ \E i \in 1..Len(game.Achievements) : game.Achievements[i] = newest

\* C1 as stated: after a fully successful lastAchievement that found an unlocked
\* achievement the reply reads "<username>'s last steam achievement: <achievement
\* name> (<achievement description>) - <title name>".
C1_ReplyTitleLast ==
    (AllFetched /\ SomeUnlocked(achievementsMap)) =>
        reply = user \o "'s last steam achievement: " \o newest.Name \o " ("
                  \o newest.Description \o ") - " \o game.GameName

\* C1 amended: after a fully successful lastAchievement that found an unlocked
\* achievement the reply reads "<username>'s last steam achievement: <title name> -
\* <achievement name> (<achievement description>)", title first, with no error.
C1_ReplyTitleFirst ==
    (AllFetched /\ SomeUnlocked(achievementsMap)) =>
        /\ err = ErrNil
        /\ NewestIsOfGame
        /\ reply = user \o "'s last steam achievement: " \o game.GameName \o " - "
                     \o newest.Name \o " (" \o newest.Description \o ")"

C1_Witness ==
    /\ AllFetched
    /\ SomeUnlocked(achievementsMap)
    /\ reply = "bob's last steam achievement: A - z (dz)"

\* C2: once an achievement fetch of lastAchievement has reported the private-profile
\* sentinel the operation has returned "Error: profile is not public" with no error,
\* and the achievement fetches issued are those of the titles up to and including
\* that one: none for a later title.
C2_NotPublicShortCircuits ==
    (res.url = AchievementsURL /\ res.kind = "json"
        /\ res.Error = "Profile is not public") =>
        /\ pc = "done"
        /\ reply = "Error: profile is not public"
        /\ err = ErrNil
        /\ AchievementFetches(idx)

C2_Witness ==
    /\ res.url = AchievementsURL
    /\ res.kind = "json"
    /\ res.Error = "Profile is not public"
    /\ idx = 1
    /\ Len(recentlyPlayed) = 2
    /\ reply = "Error: profile is not public"

\* C3: a decoded vanity-resolve response whose success flag is not 1 makes steamGetId
\* return the empty identifier with the not-found sentinel, and lastGame and
\* lastAchievement return "Error: no id found for <username>" with a nil error after
\* that one request.
C3_NotFoundIsAReply ==
    (res.url = ResolveURL /\ res.kind = "json" /\ res.Success /= 1) =>
        /\ steamGetId(res) = [id |-> "", err |-> "id not found"]
        /\ f \in {"steamLastGame", "steamLastAchievement"}
        /\ pc = "done"
        /\ reply = "Error: no id found for " \o user
        /\ err = ErrNil
        /\ id = ""
        /\ Len(requests) = 1

C3_Witness ==
    /\ res.url = ResolveURL
    /\ res.kind = "json"
    /\ res.Success = 42
    /\ f = "steamLastGame"
    /\ reply = "Error: no id found for bob"

\* C4: a body that does not decode, on any of the three fetches, ends the command
\* there: the reply is empty, the error is the decode error, and no request follows
\* the one that failed.
C4_DecodeErrorAborts ==
    (res.kind = "badjson") =>
        /\ pc = "done"
        /\ reply = ""
        /\ err = ErrDecode
        /\ res.url = ResolveURL => Len(requests) = 1
        /\ res.url = RecentURL => Len(requests) = 2
        /\ res.url = AchievementsURL => AchievementFetches(idx)

C4_Witness ==
    /\ res.kind = "badjson"
    /\ res.url = AchievementsURL
    /\ idx = 2
    /\ DOMAIN achievementsMap /= {}
    /\ err = ErrDecode

\* C5: over a map in which some achievement has unlockTime > 0, newestAchievement
\* returns an achievement whose unlockTime is the greatest of all achievements of all
\* titles, together with the title whose list holds it, in whichever order the map is
\* ranged over.
C5_NewestIsGlobalMax ==
    (pc = "returned" /\ SomeUnlocked(achievementsMap)) =>
        /\ \A g \in DOMAIN achievementsMap :
              \A i \in 1..Len(achievementsMap[g].Achievements) :
                  achievementsMap[g].Achievements[i].UnlockTime <= newest.UnlockTime
        /\ newest.UnlockTime > 0
        /\ NewestIsOfGame

C5_Witness ==
    /\ pc = "returned"
    /\ DOMAIN achievementsMap = {"A", "B"}
    /\ SomeUnlocked([g \in {"A"} |-> achievementsMap[g]])
    /\ newest.UnlockTime = 2
    /\ game.GameName = "B"
    /\ Len(game.Achievements) = 2
    /\ game.Achievements[2] = newest

\* C6: an achievement with unlockTime 0 is never the one selected, and when no fetched
\* title has an achievement with unlockTime > 0 (no titles, titles without
\* achievements, or only locked ones) newestAchievement returns its zero values and
\* lastAchievement replies "<username> has no recently unlocked steam achievements"
\* with no error.
C6_LockedNeverSelected ==
    /\ (newest /= NoAchievement \/ game /= EmptyAchievementsRes) => newest.UnlockTime > 0
    /\ (AllFetched /\ ~SomeUnlocked(achievementsMap)) =>
          /\ newest = [UnlockTime |-> 0, Name |-> "", Description |-> ""]
          /\ game = [GameName |-> "", Achievements |-> <<>>, Error |-> ""]
          /\ reply = user \o " has no recently unlocked steam achievements"
          /\ err = ErrNil

C6_Witness ==
    /\ AllFetched
    /\ ~SomeUnlocked(achievementsMap)
    /\ \E g \in DOMAIN achievementsMap : Len(achievementsMap[g].Achievements) > 0
    /\ reply = "amy has no recently unlocked steam achievements"

\* the palette by Go index
ColourAt(i) ==
    CASE i % 7 = 0 -> "green"
      [] i % 7 = 1 -> "red"
      [] i % 7 = 2 -> "blue"
      [] i % 7 = 3 -> "orange"
      [] i % 7 = 4 -> "magenta"
      [] i % 7 = 5 -> "cyan"
      [] i % 7 = 6 -> "yellow"

\* C7: colourList of N strings returns N strings, the one at Go index i being
\* "{<colour>}<item>{clear}" with the colour at i mod 7 of green, red, blue, orange,
\* magenta, cyan, yellow; index 7 is green again and no strings give no strings.
C7_ColourCycle ==
    (pc = "returned") =>
        /\ Len(cl) = Len(names)
        /\ \A i \in 1..Len(names) :
              cl[i] = "{" \o ColourAt(i - 1) \o "}" \o names[i] \o "{clear}"
        /\ Len(names) >= 8 => cl[8] = "{green}" \o names[8] \o "{clear}"
        /\ names = <<>> => cl = <<>>

C7_Witness ==
    /\ pc = "returned"
    /\ Len(names) = 8
    /\ cl[7] = "{yellow}a{clear}"
    /\ cl[8] = "{green}b{clear}"

\* C8: in lastGame a decoded recently-played response without titles gives the reply
\* "<username> has no recently played steam games" with no error, and nothing is
\* colour-tagged.
C8_NoGames ==
    (f = "steamLastGame" /\ res.url = RecentURL /\ res.kind = "json"
        /\ res.Games = <<>>) =>
        /\ pc = "done"
        /\ reply = user \o " has no recently played steam games"
        /\ err = ErrNil
        /\ cl = <<>>

C8_Witness ==
    /\ f = "steamLastGame"
    /\ res.url = RecentURL
    /\ res.kind = "json"
    /\ res.Games = <<>>
    /\ reply = "amy has no recently played steam games"

\* the titles of a response from position i on, tagged by position and joined
RECURSIVE TaggedFrom(_, _)
TaggedFrom(games, i) ==
    LET t == "{" \o ColourAt(i - 1) \o "}" \o games[i].Name \o "{clear}"
    IN IF i >= Len(games) THEN t ELSE t \o ", " \o TaggedFrom(games, i + 1)

\* C9: in lastGame a decoded recently-played response with titles gives the reply
\* "<username>'s recently played steam games: " followed by the title names in the
\* order of the response, each colour-tagged by its position, joined with ", "; and
\* lastGame issues no achievement request.
C9_GamesInApiOrder ==
    /\ (f = "steamLastGame" /\ res.url = RecentURL /\ res.kind = "json"
          /\ res.Games /= <<>>) =>
          /\ pc = "done"
          /\ err = ErrNil
          /\ reply = user \o "'s recently played steam games: " \o TaggedFrom(res.Games, 1)
    /\ (f = "steamLastGame") =>
          \A j \in 1..Len(requests) : requests[j].url /= AchievementsURL

C9_Witness ==
    /\ f = "steamLastGame"
    /\ Len(requests) = 2
    /\ reply = "bob's recently played steam games: {green}B{clear}, {red}A{clear}"

\* the first whitespace-separated token of an argument string, "" when there is none
FirstToken(args) ==
    LET at == {i \in 1..Len(args) : args[i] \notin Whitespace}
    IN IF at = {} THEN ""
       ELSE args[CHOOSE i \in at : \A j \in at : i <= j]

\* C10: the handler dispatches on the first token of the argument string: s/set to the
\* set-user handler, r/recent to lastGame, a/achievement to lastAchievement; any other
\* first token, and no token at all, gives the help reply with no error, no bucket
\* operation and no request.  (Without a username the steam operation is called in the
\* handler's second step, after the lookup.)
C10_Dispatch ==
    [][ /\ (pc = "lookedUp" /\ pc' = "resolving") =>
              /\ command \in {"r", "recent", "a", "achievement"}
              /\ f' = (IF command \in {"r", "recent"}
                       THEN "steamLastGame" ELSE "steamLastAchievement")
              /\ Len(requests') = 1
        /\ (pc = "handling" /\ pc' /= "handling") =>
          LET first == FirstToken(m.Args)
          IN /\ first \in {"s", "set"} =>
                   /\ pc' = "done"
                   /\ f' = "none"
                   /\ requests' = <<>>
                   /\ \A i \in 1..Len(kvOps') : kvOps'[i].op = "put"
                   /\ reply' \in {"Error: username needed", "",
                                  "set " \o m.Nick \o "'s user to " \o user'}
             /\ first \in {"r", "recent"} =>
                   /\ \A i \in 1..Len(kvOps') : kvOps'[i].op = "get"
                   /\ kv' = kv
                   /\ IF pc' = "resolving"
                      THEN f' = "steamLastGame" /\ Len(requests') = 1
                      ELSE f' = "none" /\ reply' \in {"Error: username needed", ""}
             /\ first \in {"a", "achievement"} =>
                   /\ \A i \in 1..Len(kvOps') : kvOps'[i].op = "get"
                   /\ kv' = kv
                   /\ IF pc' = "resolving"
                      THEN f' = "steamLastAchievement" /\ Len(requests') = 1
                      ELSE f' = "none" /\ reply' \in {"Error: username needed", ""}
             /\ first \notin {"s", "set", "r", "recent", "a", "achievement"} =>
                   /\ pc' = "done"
                   /\ reply' = "one of [s]et, [r]ecent or [a]chievements must be passed as a command"
                   /\ err' = ErrNil
                   /\ f' = "none"
                   /\ kvOps' = <<>>
                   /\ kv' = kv
                   /\ requests' = <<>>
      ]_vars

C10_Witness ==
    /\ pc = "done"
    /\ command = "achievements"
    /\ reply = "one of [s]et, [r]ecent or [a]chievements must be passed as a command"
    /\ err = ErrNil
    /\ requests = <<>>
    /\ kvOps = <<>>

\* the handler leaves its first step, on a recent or achievement command
LookupStep ==
    /\ pc = "handling"
    /\ pc' /= "handling"
    /\ FirstToken(m.Args) \in {"r", "recent", "a", "achievement"}

\* the handler goes on from the lookup it made
UseStep == pc = "lookedUp" /\ pc' /= "lookedUp"

\* says while the database is open; once main has closed it, a lookup that found an
\* entry ends in a fault at string(userC), with no reply and no request
C11_StoredUsernameOrFault ==
    [][ /\ (LookupStep /\ parseArgs(m.Args).user = "" /\ err' /= ErrKV) =>
              /\ kvOps' = <<[op |-> "get", nick |-> m.Nick, ok |-> TRUE]>>
              /\ pc' = "lookedUp"
              /\ userC' = kv[m.Nick]
              /\ f' = "none"
              /\ requests' = <<>>
        /\ UseStep =>
              LET nick == kvOps[1].nick
              IN IF kv[nick] = ""
                 THEN /\ pc' = "done"
                      /\ reply' = "Error: username needed"
                      /\ err' = ErrNil
                      /\ f' = "none"
                      /\ requests' = <<>>
                 ELSE IF kvOpen
                 THEN /\ pc' = "resolving"
                      /\ user' = kv[nick]
                      /\ f' = (IF command \in {"r", "recent"}
                               THEN "steamLastGame" ELSE "steamLastAchievement")
                      /\ requests' = <<[url |-> ResolveURL, key |-> ApiKey,
                                        target |-> kv[nick], appid |-> 0]>>
                 ELSE /\ pc' = "panicked"
                      /\ reply' = ""
                      /\ f' = "none"
                      /\ requests' = <<>>
      ]_vars


\* the set-user handler returns from a put that went through
SuccessfulSet ==
    /\ pc = "handling"
    /\ pc' /= "handling"
    /\ FirstToken(m.Args) \in {"s", "set"}
    /\ parseArgs(m.Args).user /= ""
    /\ err' = ErrNil

\* C12: the bucket holds one username per nick, the one of the nick's latest successful
\* set: a successful set overwrites the invoking nick's entry with its username and
\* leaves every other nick's entry as it was, no other step changes the bucket, and a
\* later recent/achievement command without a username from that nick runs against
\* exactly the entry.
C12_LatestSetWins ==
    [][ /\ SuccessfulSet =>
              /\ kv'[m.Nick] = parseArgs(m.Args).user
              /\ \A n \in Nicks \ {m.Nick} : kv'[n] = kv[n]
              /\ reply' = "set " \o m.Nick \o "'s user to " \o kv'[m.Nick]
        /\ ~SuccessfulSet => kv' = kv
        /\ DOMAIN kv' = Nicks
        /\ (UseStep /\ pc' = "resolving") =>
              /\ user' = kv[kvOps[1].nick]
              /\ requests'[1].target = kv[kvOps[1].nick]
      ]_vars

\* both nicks have set a username; n1's command without one runs against n1's entry
C12_Witness ==
    /\ pc = "resolving"
    /\ kv = [n \in Nicks |-> IF n = "n1" THEN "amy" ELSE "bob"]
    /\ kvOps = <<[op |-> "get", nick |-> "n1", ok |-> TRUE]>>
    /\ f = "steamLastGame"
    /\ user = "amy"

\* C13: in lastGame and lastAchievement the first request is the resolve request and it
\* is the only one until a resolve response with success 1 has come in; that response
\* is followed by the recently-played request for its identifier, any other resolve
\* response ends the operation with no further request; and every request after the
\* first carries the identifier of that response.
C13_IdOnlyAfterSuccess ==
    [][ /\ (pc = "resolving") =>
              /\ requests = <<[url |-> ResolveURL, key |-> ApiKey, target |-> user,
                               appid |-> 0]>>
              /\ res'.url = ResolveURL
              /\ IF res'.kind = "json" /\ res'.Success = 1
                 THEN /\ pc' = "fetchingRecent"
                      /\ id' = res'.SteamId
                      /\ requests' = Append(requests,
                                            [url |-> RecentURL, key |-> ApiKey,
                                             target |-> res'.SteamId, appid |-> 0])
                 ELSE /\ pc' \in {"done", "panicked"}
                      /\ id' = ""
                      /\ requests' = requests
        /\ (pc \in {"fetchingRecent", "fetchingAchievements"}) =>
              /\ id' = id
              /\ Len(requests') \in {Len(requests), Len(requests) + 1}
              /\ \A j \in 1..Len(requests) : requests'[j] = requests[j]
              /\ \A j \in 2..Len(requests') :
                    /\ requests'[j].url \in {RecentURL, AchievementsURL}
                    /\ requests'[j].target = id
      ]_vars

C13_Witness ==
    /\ pc = "fetchingAchievements"
    /\ f = "steamLastAchievement"
    /\ id = "777"
    /\ Len(requests) = 4
    /\ requests[2].url = RecentURL
    /\ requests[2].target = "777"
    /\ requests[4].url = AchievementsURL
    /\ requests[4].target = "777"

\* the unlock times of every achievement of every title fetched
FetchedTimes ==
    UNION { {fetched[i].Achievements[j].UnlockTime :
                j \in 1..Len(fetched[i].Achievements)} : i \in 1..Len(fetched) }

\* C14 as stated: when lastAchievement has made every fetch successfully, one title
\* was fetched per entry of the recently-played list, the achievement named in the
\* reply has the greatest unlockTime of all achievements of all fetched titles, and the
\* reply is "no recently unlocked" only if no fetched title has an achievement with
\* unlockTime > 0, also when several fetched titles report the same game name.
C14_AggregatesEveryFetchedTitle ==
    AllFetched =>
        /\ Len(fetched) = Len(recentlyPlayed)
        /\ \A t \in FetchedTimes : t <= newest.UnlockTime
        /\ (reply = user \o " has no recently unlocked steam achievements") =>
              \A t \in FetchedTimes : t = 0

\* what the code does: the aggregator runs over the map, which holds for each game name
\* the title fetched last under that name
C14_AggregatesLastTitlePerName ==
    AllFetched =>
        /\ Len(fetched) = Len(recentlyPlayed)
        /\ DOMAIN achievementsMap = {fetched[i].GameName : i \in 1..Len(fetched)}
        /\ \A i \in 1..Len(fetched) :
              (\A j \in (i + 1)..Len(fetched) : fetched[j].GameName /= fetched[i].GameName)
                  => achievementsMap[fetched[i].GameName] = fetched[i]
        /\ \A g \in DOMAIN achievementsMap :
              \A i \in 1..Len(achievementsMap[g].Achievements) :
                  achievementsMap[g].Achievements[i].UnlockTime <= newest.UnlockTime
        /\ (reply = user \o " has no recently unlocked steam achievements") <=>
              ~SomeUnlocked(achievementsMap)

\* two titles under one game name, the first with an unlocked achievement, the second
\* without any: the reply is "no recently unlocked"
C14_Witness ==
    /\ AllFetched
    /\ Len(fetched) = 2
    /\ fetched[1].GameName = fetched[2].GameName
    /\ fetched[1].Achievements = <<[UnlockTime |-> 2, Name |-> "z", Description |-> "dz"]>>
    /\ fetched[2].Achievements = <<>>
    /\ reply = "bob has no recently unlocked steam achievements"

\* the greatest unlock time in a map of titles, 0 when there is no achievement
MaxTime(am) ==
    LET ts == {0} \cup UNION { {am[g].Achievements[i].UnlockTime :
                                   i \in 1..Len(am[g].Achievements)} : g \in DOMAIN am }
    IN CHOOSE t \in ts : \A u \in ts : u <= t

\* the positions of a title's list that hold unlock time t
PositionsAt(as, t) == {i \in 1..Len(as.Achievements) : as.Achievements[i].UnlockTime = t}

\* the first achievement with unlock time t met when the map is ranged over in order o
FirstMet(am, o, t) ==
    LET ks == {k \in 1..Len(o) : PositionsAt(am[o[k]], t) /= {}}
        k1 == CHOOSE k \in ks : \A j \in ks : k <= j
        ps == PositionsAt(am[o[k1]], t)
        p1 == CHOOSE i \in ps : \A j \in ps : i <= j
    IN [game |-> am[o[k1]], newest |-> am[o[k1]].Achievements[p1]]

\* C15: when several achievements share the greatest unlockTime, newestAchievement
\* returns the first of them met in iteration order: whichever order the map is ranged
\* over, the result is the first title in that order holding the greatest time and the
\* earliest position of that title's list holding it; a later achievement with an
\* equal time never replaces it.
C15_TiesKeepFirst ==
    (pc = "returned" /\ SomeUnlocked(achievementsMap)) =>
        LET am == achievementsMap
            t == MaxTime(am)
        IN /\ \A o \in Orders(am) : newestAchievement(am, o) = FirstMet(am, o, t)
           /\ \E o \in Orders(am) : [game |-> game, newest |-> newest] = FirstMet(am, o, t)
           /\ LET ps == PositionsAt(game, t)
              IN /\ ps /= {}
                 /\ newest = game.Achievements[CHOOSE i \in ps : \A j \in ps : i <= j]

\* two titles, both holding the greatest time, one of them twice: its first wins
C15_Witness ==
    /\ pc = "returned"
    /\ DOMAIN achievementsMap = {"A", "B"}
    /\ PositionsAt(achievementsMap["A"], 2) = {1, 2}
    /\ PositionsAt(achievementsMap["B"], 2) = {2}
    /\ achievementsMap["A"].Achievements[1].Name = "w"
    /\ achievementsMap["A"].Achievements[2].Name = "z"
    /\ game = achievementsMap["A"]
    /\ newest.Name = "w"

\* the request log is a prefix of: resolve, recently-played, one achievements request
\* per title in the order of the recently-played list
RequestsInOrder ==
    /\ Len(requests) <= 2 + Len(recentlyPlayed)
    /\ Len(requests) >= 1 =>
          requests[1] = [url |-> ResolveURL, key |-> ApiKey, target |-> user, appid |-> 0]
    /\ Len(requests) >= 2 =>
          requests[2] = [url |-> RecentURL, key |-> ApiKey, target |-> id, appid |-> 0]
    /\ \A j \in 3..Len(requests) :
          requests[j] = [url |-> AchievementsURL, key |-> ApiKey, target |-> id,
                         appid |-> recentlyPlayed[j - 2].AppId]

\* the responses the running operation has consumed so far, by where it stands
Answered ==
    CASE pc = "resolving" -> 0
      [] pc = "fetchingRecent" -> 1
      [] pc = "fetchingAchievements" -> 2 + Len(fetched)

\* C16: within one command the requests go out one at a time in a fixed order: resolve,
\* then recently-played, then one achievements request per title in list order.  A
\* request is issued only in the step that has consumed the response to the previous
\* one, so while the operation runs exactly one request is unanswered, and none once it
\* has returned.
C16_OneRequestAtATime ==
    [][ /\ RequestsInOrder'
        /\ pc' \in {"resolving", "fetchingRecent", "fetchingAchievements"} =>
              Len(requests') = Answered' + 1
        /\ pc' \in {"done", "panicked"} =>
              /\ Len(requests') >= 1
              /\ res'.url = requests'[Len(requests')].url
        /\ (pc /= "idle" /\ pc' /= "idle") =>
              \/ requests' = requests
              \/ /\ Len(requests') = Len(requests) + 1
                 /\ \A j \in 1..Len(requests) : requests'[j] = requests[j]
                 /\ res'.kind = "json"
                 /\ res'.url = requests[Len(requests)].url
      ]_vars

C16_Witness ==
    /\ pc = "fetchingAchievements"
    /\ Len(recentlyPlayed) = 2
    /\ recentlyPlayed[1].AppId = 2
    /\ recentlyPlayed[2].AppId = 1
    /\ Len(requests) = 4
    /\ requests[3].appid = 2
    /\ requests[4].appid = 1
    /\ Len(fetched) = 1

\* how far along its pipeline the running operation is
Stage ==
    CASE pc = "resolving" -> 1
      [] pc = "fetchingRecent" -> 2
      [] pc = "fetchingAchievements" -> 2 + idx
      [] OTHER -> 3 + Len(recentlyPlayed)

Running == pc \in {"resolving", "fetchingRecent", "fetchingAchievements"}

\* the five outcomes of lastGame / lastAchievement
OutcomeNotFound == err = ErrNil /\ reply = "Error: no id found for " \o user

OutcomeNotPublic == err = ErrNil /\ reply = "Error: profile is not public"

OutcomeEmpty ==
    /\ err = ErrNil
    /\ reply \in {user \o " has no recently played steam games",
                  user \o " has no recently unlocked steam achievements"}

OutcomeSuccess ==
    /\ err = ErrNil
    /\ \/ /\ f = "steamLastGame"
          /\ recentlyPlayed /= <<>>
          /\ reply = user \o "'s recently played steam games: "
                       \o TaggedFrom(recentlyPlayed, 1)
       \/ /\ f = "steamLastAchievement"
          /\ newest.UnlockTime > 0
          /\ reply = user \o "'s last steam achievement: " \o game.GameName \o " - "
                       \o newest.Name \o " (" \o newest.Description \o ")"

OutcomeError == reply = "" /\ err \in {ErrTransport, ErrDecode}

OutcomeCount ==
    Cardinality({k \in 1..5 :
        CASE k = 1 -> OutcomeNotFound
          [] k = 2 -> OutcomeNotPublic
          [] k = 3 -> OutcomeEmpty
          [] k = 4 -> OutcomeSuccess
          [] k = 5 -> OutcomeError})

\* no step goes back, a failed fetch is not repeated, and the number of requests stays
\* within 2 for lastGame and 2 + N for lastAchievement over a list of N titles
ForwardOnly ==
    /\ Running => (Stage' > Stage /\ pc' /= "idle")
    /\ (Running /\ res'.kind /= "json") => (~Running' /\ requests' = requests)
    /\ f' = "steamLastGame" => Len(requests') <= 2
    /\ f' = "steamLastAchievement" => Len(requests') <= 2 + Len(recentlyPlayed')
    /\ (f' = "steamLastAchievement" /\ Len(requests') > 2) =>
          Len(requests') = 2 + idx'

\* C17 as stated: every lastGame / lastAchievement execution whose HTTP calls return is
\* a forward-only pipeline that ends in exactly one of: not-found reply, not-public
\* reply, empty-result reply, success reply, propagated error; no request is retried,
\* lastGame issues at most 2 requests and lastAchievement at most 2 + N.
C17_OneOutcomeForwardOnly ==
    [][ /\ ForwardOnly
        /\ (Running /\ ~Running') => (pc' = "done" /\ OutcomeCount' = 1)
      ]_vars

\* what holds of the code: the same, with the nil dereference on a body of JSON null
\* as a sixth way out
C17_ForwardOnlyOrPanic ==
    [][ /\ ForwardOnly
        /\ (Running /\ ~Running') =>
              IF res'.kind = "null"
              THEN pc' = "panicked" /\ OutcomeCount' = 0
              ELSE pc' = "done" /\ OutcomeCount' = 1
      ]_vars

\* the recently-played body was JSON null: getRecentlyPlayed returned a nil pointer
\* with a nil error and the caller dereferenced it
C17_Witness ==
    /\ pc = "panicked"
    /\ f = "steamLastGame"
    /\ res.url = RecentURL
    /\ res.kind = "null"
    /\ Len(requests) = 2

\* the handler returns from a bucket transaction that failed
StoreFailed ==
    /\ pc = "handling"
    /\ pc' /= "handling"
    /\ \E i \in 1..Len(kvOps') : ~kvOps'[i].ok

\* C18: a bucket transaction that fails ends the command with an empty reply and the
\* store's error: a failed put gives no "set ... user to ..." reply and leaves the
\* bucket as it was, a failed get of a recent/achievement command without a username
\* returns before the steam operation is called, so no request goes out.
C18_StoreFailurePropagates ==
    [][ StoreFailed =>
          /\ pc' = "done"
          /\ reply' = ""
          /\ err' = ErrKV
          /\ kv' = kv
          /\ f' = "none"
          /\ requests' = <<>>
          /\ Len(kvOps') = 1
          /\ kvOps'[1].nick = m.Nick
          /\ kvOps'[1].op = "put" <=> FirstToken(m.Args) \in {"s", "set"}
          /\ kvOps'[1].op = "get" <=>
                /\ FirstToken(m.Args) \in {"r", "recent", "a", "achievement"}
                /\ parseArgs(m.Args).user = ""
      ]_vars

\* n1 has bob stored; its set to amy fails and bob stays
C18_Witness ==
    /\ pc = "done"
    /\ kvOps = <<[op |-> "put", nick |-> "n1", ok |-> FALSE]>>
    /\ user = "amy"
    /\ kv["n1"] = "bob"
    /\ reply = ""
    /\ err = ErrKV

\* the handler leaves its first step
HandlerStep == pc = "handling" /\ pc' /= "handling"

\* C20: the bucket changes only in a set command with a username, and then only the
\* entry of the invoking nick; a set without a username returns "Error: username
\* needed" without touching the bucket; recent, achievement and unrecognized commands
\* never put; a recent / achievement command given a username does not get either; so
\* no put ever carries an empty username.
C20_OnlySetWrites ==
    [][ /\ kv' /= kv =>
              /\ HandlerStep
              /\ FirstToken(m.Args) \in {"s", "set"}
              /\ parseArgs(m.Args).user /= ""
              /\ kv' = [kv EXCEPT ![m.Nick] = parseArgs(m.Args).user]
        /\ (HandlerStep /\ FirstToken(m.Args) \in {"s", "set"}) =>
              IF parseArgs(m.Args).user = ""
              THEN /\ reply' = "Error: username needed"
                   /\ err' = ErrNil
                   /\ kv' = kv
                   /\ kvOps' = <<>>
              ELSE /\ Len(kvOps') = 1
                   /\ kvOps'[1].op = "put"
                   /\ kvOps'[1].nick = m.Nick
        /\ (HandlerStep /\ FirstToken(m.Args) \notin {"s", "set"}) =>
              /\ \A i \in 1..Len(kvOps') : kvOps'[i].op = "get"
              /\ parseArgs(m.Args).user /= "" => kvOps' = <<>>
              /\ FirstToken(m.Args) \notin {"r", "recent", "a", "achievement"} =>
                    kvOps' = <<>>
        /\ ~HandlerStep => kvOps' \in {kvOps, <<>>}
        /\ \A n \in Nicks : kv'[n] /= kv[n] => kv'[n] /= ""
      ]_vars

\* both nicks have an entry and a set without a username has just been refused
C20_Witness ==
    /\ pc = "done"
    /\ command = "set"
    /\ user = ""
    /\ reply = "Error: username needed"
    /\ kvOps = <<>>
    /\ kv = [n \in Nicks |-> IF n = "n1" THEN "bob" ELSE "amy"]

\* the achievement fetch just answered failed: private profile, transport or decode
FetchFailed(rs) ==
    /\ rs.url = AchievementsURL
    /\ \/ rs.kind \in {"neterr", "badjson"}
       \/ rs.kind = "json" /\ rs.Error = "Profile is not public"

\* C21: the first title, in recently-played order, whose achievement fetch fails
\* decides the outcome of lastAchievement: a private profile gives the reply "Error:
\* profile is not public" with no error, a transport or decode failure gives an empty
\* reply with that error.  Every earlier title had been fetched successfully, whatever
\* it held does not matter (the aggregator is not run), and no later title is fetched.
C21_FirstFailureDecides ==
    [][ (pc = "fetchingAchievements" /\ FetchFailed(res')) =>
          /\ pc' = "done"
          /\ IF res'.kind = "json"
             THEN reply' = "Error: profile is not public" /\ err' = ErrNil
             ELSE /\ reply' = ""
                  /\ err' = (IF res'.kind = "neterr" THEN ErrTransport ELSE ErrDecode)
          /\ fetched' = fetched
          /\ Len(fetched) = idx - 1
          /\ \A i \in 1..Len(fetched) : fetched[i].Error /= "Profile is not public"
          /\ game' = EmptyAchievementsRes
          /\ newest' = NoAchievement
          /\ idx' = idx
          /\ requests' = requests
          /\ Len(requests) = 2 + idx
          /\ requests[2 + idx].appid = recentlyPlayed[idx].AppId
      ]_vars

\* the first title held an unlocked achievement, the fetch of the second one failed in
\* transport
C21_Witness ==
    /\ pc = "done"
    /\ f = "steamLastAchievement"
    /\ res.url = AchievementsURL
    /\ res.kind = "neterr"
    /\ idx = 2
    /\ Len(fetched) = 1
    /\ fetched[1].Achievements = <<[UnlockTime |-> 2, Name |-> "z", Description |-> "dz"]>>
    /\ reply = ""
    /\ err = ErrTransport

====
